---- MODULE Spec2Model ----
(***************************************************************************)
(* A model of the Fetcher class of src/src/fetcher.js: the list of URL     *)
(* template filters and its four management methods, setOptions, and       *)
(* fetchVAST, whose body runs synchronously up to the await of             *)
(* urlHandler.get and is resumed once when the transport completes.        *)
(*                                                                         *)
(* JavaScript values are modelled as follows.  An object is a record; a    *)
(* property that is undefined is a field that is absent from the record.   *)
(* null is the string "null".  A url is a sequence of tokens, so that a    *)
(* filter really rewrites it.  Status codes and errors are strings,        *)
(* durations, byte lengths and wrapper depths are integers.                *)
(***************************************************************************)
EXTENDS Integers, Sequences, FiniteSets, TLC

(***************************************************************************)
(* Bounds of the model.                                                    *)
(***************************************************************************)
\* number of fetchVAST invocations made on the one Fetcher
MaxCalls == 2
\* longest list of filters the model lets the caller build
MaxFilters == 2
\* last value of the clock read by Date.now()
MaxTime == 1

\* src/src/urlhandlers/consts (imported at fetcher.js:3)
DEFAULT_TIMEOUT == 120000

Calls == 1..MaxCalls

Null == "null"

(***************************************************************************)
(* The values a caller hands to addURLTemplateFilter.  "fa" and "fb" are   *)
(* functions that append a token to the url (they do not commute); "fb"    *)
(* is not total: it throws when the url it is handed already ends in its   *)
(* token.  "notAFunction" is a value for which typeof is not 'function'.   *)
(***************************************************************************)
FilterFunctions == {"fa", "fb"}
NonCallables == {"notAFunction"}
FilterArguments == FilterFunctions \cup NonCallables

\* filter(url) for the filters that return
FilterResult(filter, url) ==
  CASE filter = "fa" -> Append(url, "a")
    [] filter = "fb" -> Append(url, "b")
    [] OTHER -> url

FilterThrows(filter, url) ==
  filter = "fb" /\ Len(url) > 0 /\ url[Len(url)] = "b"

(***************************************************************************)
(* Array.prototype.push / pop and typeof, as the filter methods use them.  *)
(***************************************************************************)
\* a typeof test that lets every value through
isFunction_any(filter) == TRUE

isFunction(filter) == filter \in FilterFunctions

\* unshift instead of push
push_front(array, element) == << element >> \o array

push(array, element) == Append(array, element)

\* slice(0, -1) without assignment: the array keeps its last element
pop_none(array) == array

\* shift instead of pop
pop_first(array) == IF Len(array) = 0 THEN array ELSE Tail(array)

pop(array) ==
  IF Len(array) = 0 THEN array ELSE SubSeq(array, 1, Len(array) - 1)

(***************************************************************************)
(* URLTemplateFilters.forEach(filter => { url = filter(url) }): the        *)
(* filters run from index 1 upwards, each on the url the previous one      *)
(* left; a filter that throws ends the loop.  The result records the       *)
(* url, whether a filter threw, and every call made: <<filter, argument>>. *)
(***************************************************************************)
RECURSIVE forEachFrom(_, _, _)
forEachFrom(filters, index, acc) ==
  IF index > Len(filters) \/ acc.threw
  THEN acc
  ELSE LET filter == filters[index]
           applied == Append(acc.applied, <<filter, acc.url>>)
       IN IF FilterThrows(filter, acc.url)
          THEN [url |-> acc.url, threw |-> TRUE, applied |-> applied]
          ELSE forEachFrom(filters, index + 1,
                 [url |-> FilterResult(filter, acc.url), threw |-> FALSE,
                  applied |-> applied])

forEach(filters, url) ==
  forEachFrom(filters, 1, [url |-> url, threw |-> FALSE, applied |-> <<>>])

(***************************************************************************)
(* setOptions: the option bags a caller passes, and the two fields the     *)
(* method computes from one.  Before setOptions has run, urlHandler (a     *)
(* string here) and fetchingOptions (a record here) are undefined.         *)
(***************************************************************************)
Undefined == [undefined |-> TRUE]

OptionBags ==
  { [urlHandler |-> "customHandler", timeout |-> 1, withCredentials |-> TRUE],
    [urlhandler |-> "legacyHandler", timeout |-> 0] }

\* options.urlHandler || options.urlhandler || urlHandler
urlHandlerOf(options) ==
  IF "urlHandler" \in DOMAIN options THEN options.urlHandler
  ELSE IF "urlhandler" \in DOMAIN options THEN options.urlhandler
  ELSE "urlHandler"

\* { timeout: options.timeout || DEFAULT_TIMEOUT,
\*   withCredentials: options.withCredentials || false }
fetchingOptionsOf(options) ==
  [timeout |-> IF "timeout" \in DOMAIN options /\ options.timeout # 0
               THEN options.timeout ELSE DEFAULT_TIMEOUT,
   withCredentials |-> IF "withCredentials" \in DOMAIN options
                       THEN options.withCredentials ELSE FALSE]

(***************************************************************************)
(* The argument of fetchVAST: the object the caller passes.  Its emitter   *)
(* is a function that returns, or throws when called with                  *)
(* 'VAST-resolving', or throws when called with 'VAST-resolved'.           *)
(***************************************************************************)
Emitters == {"returns", "throwsOnResolving", "throwsOnResolved"}

Requests ==
  { [url |-> <<"u">>, maxWrapperDepth |-> 1, emitter |-> "returns"],
    [url |-> <<"v">>, maxWrapperDepth |-> 2, emitter |-> "returns",
     wrapperDepth |-> 1, previousUrl |-> "prev", wrapperAd |-> "ad"],
    [url |-> <<"u">>, maxWrapperDepth |-> 1, emitter |-> "throwsOnResolving"],
    [url |-> <<"v">>, maxWrapperDepth |-> 2, emitter |-> "throwsOnResolved",
     wrapperDepth |-> 1, previousUrl |-> "prev", wrapperAd |-> "ad"] }

\* the destructured parameters of fetchVAST with their defaults
parameters(request) ==
  [url |-> request.url,
   maxWrapperDepth |-> request.maxWrapperDepth,
   emitter |-> request.emitter,
   wrapperDepth |-> IF "wrapperDepth" \in DOMAIN request
                    THEN request.wrapperDepth ELSE 0,
   previousUrl |-> IF "previousUrl" \in DOMAIN request
                   THEN request.previousUrl ELSE Null,
   wrapperAd |-> IF "wrapperAd" \in DOMAIN request
                 THEN request.wrapperAd ELSE Null]

(***************************************************************************)
(* What urlHandler.get may hand back when it completes.  The encodings of  *)
(* the falsy values a field may hold ("0" is the status code 0).           *)
(***************************************************************************)
TransportResults ==
  { [xml |-> "<VAST/>", statusCode |-> "200", details |-> [byteLength |-> 1000]],
    [xml |-> "<VAST2/>", statusCode |-> "200"],
    [error |-> "E1"],
    [error |-> "E2", statusCode |-> "0", details |-> [byteLength |-> 500]],
    [xml |-> "<VAST3/>",
     details |-> [url |-> <<"x">>, previousUrl |-> "dprev", wrapperDepth |-> 7,
                  error |-> "derr", duration |-> 99, statusCode |-> "599",
                  wrapperAd |-> "dad"]] }

Falsy == {"0", "", Null}

\* object.field || null
orNull(object, field) ==
  IF field \in DOMAIN object /\ object[field] \notin Falsy
  THEN object[field] ELSE Null

\* { ...target, ...source }: a field of source replaces the one of target
spread(target, source) ==
  [k \in DOMAIN target \cup DOMAIN source |->
     IF k \in DOMAIN source THEN source[k] ELSE target[k]]

detailsOf(data) ==
  IF "details" \in DOMAIN data THEN data.details ELSE <<>>

\* wrapperDepth and maxWrapperDepth mixed up
resolvingPayload_depthsSwapped(frame, options) ==
  [url |-> frame.url,
   previousUrl |-> frame.previousUrl,
   wrapperDepth |-> frame.maxWrapperDepth,
   maxWrapperDepth |-> frame.wrapperDepth,
   timeout |-> options.timeout,
   wrapperAd |-> frame.wrapperAd]

\* the payload of 'VAST-resolving'
\* the payload reporting the default timeout instead of the configured one
resolvingPayload_defaultTimeout(frame, options) ==
  [url |-> frame.url,
   previousUrl |-> frame.previousUrl,
   wrapperDepth |-> frame.wrapperDepth,
   maxWrapperDepth |-> frame.maxWrapperDepth,
   timeout |-> DEFAULT_TIMEOUT,
   wrapperAd |-> frame.wrapperAd]

resolvingPayload(frame, options) ==
  [url |-> frame.url,
   previousUrl |-> frame.previousUrl,
   wrapperDepth |-> frame.wrapperDepth,
   maxWrapperDepth |-> frame.maxWrapperDepth,
   timeout |-> options.timeout,
   wrapperAd |-> frame.wrapperAd]

\* const info = { url, previousUrl, wrapperDepth, error, duration, statusCode,
\*                ...data.details }
resolvedInfo(frame, data, deltaTime) ==
  spread([url |-> frame.url,
          previousUrl |-> frame.previousUrl,
          wrapperDepth |-> frame.wrapperDepth,
          error |-> orNull(data, "error"),
          duration |-> deltaTime,
          statusCode |-> orNull(data, "statusCode")],
         detailsOf(data))

\* data.statusCode passed where the byte length belongs
estimatorArguments_statusCode(data, deltaTime) ==
  IF "statusCode" \in DOMAIN data
  THEN [byteLength |-> data.statusCode, duration |-> deltaTime]
  ELSE [duration |-> deltaTime]

\* the arguments of updateEstimatedBitrate(data?.details?.byteLength, deltaTime)
estimatorArguments(data, deltaTime) ==
  IF "byteLength" \in DOMAIN detailsOf(data)
  THEN [byteLength |-> detailsOf(data).byteLength, duration |-> deltaTime]
  ELSE [duration |-> deltaTime]

\* if (data.error) reject(data.error) else resolve(data.xml)
\* resolve and reject kept in one place for all calls: those of the first call
settle_firstCall(call, data) ==
  IF orNull(data, "error") # Null
  THEN [kind |-> "reject", call |-> 1, value |-> data.error]
  ELSE [kind |-> "resolve", call |-> 1,
        value |-> IF "xml" \in DOMAIN data THEN data.xml ELSE "undefined"]

settle(call, data) ==
  IF orNull(data, "error") # Null
  THEN [kind |-> "reject", call |-> call, value |-> data.error]
  ELSE [kind |-> "resolve", call |-> call,
        value |-> IF "xml" \in DOMAIN data THEN data.xml ELSE "undefined"]

(***************************************************************************)
(* The effects of one fetchVAST call, in the order the code produces them. *)
(* beforeAwait is the executor up to the await of urlHandler.get;          *)
(* afterAwait is the rest of the try block, run when get has completed     *)
(* with data.  A filter that throws is outside the try block: the async    *)
(* executor's own promise is rejected and nothing observes it.  Inside the *)
(* try block every exception ends in console.error.                        *)
(***************************************************************************)
emit(call, name, payload) ==
  [kind |-> "emit", call |-> call, name |-> name, payload |-> payload]

\* the catch block passing the exception on to reject
logged_rejects(call) == [kind |-> "reject", call |-> call, value |-> "exception"]

logged(call) == [kind |-> "console.error", call |-> call]

\* the default options used when setOptions was never called
beforeAwait_defaultOptions(call, frame, filtersThrew, handler, options, getThrows) ==
  LET used == IF options = Undefined
              THEN [timeout |-> DEFAULT_TIMEOUT, withCredentials |-> FALSE]
              ELSE options
      get == [kind |-> "get", call |-> call, urlHandler |-> handler,
              url |-> frame.url, options |-> used]
      resolving == emit(call, "VAST-resolving", resolvingPayload(frame, used))
  IN IF filtersThrew
     THEN << [kind |-> "unhandledRejection", call |-> call] >>
     ELSE IF frame.emitter = "throwsOnResolving"
     THEN << resolving, logged(call) >>
     ELSE IF getThrows
     THEN << resolving, get, logged(call) >>
     ELSE << resolving, get >>

\* the filters run inside the try block
beforeAwait_filtersInsideTry(call, frame, filtersThrew, handler, options, getThrows) ==
  LET get == [kind |-> "get", call |-> call, urlHandler |-> handler,
              url |-> frame.url, options |-> options]
  IN IF filtersThrew \/ options = Undefined
     THEN << logged(call) >>
     ELSE LET resolving == emit(call, "VAST-resolving",
                                resolvingPayload(frame, options))
          IN IF frame.emitter = "throwsOnResolving"
             THEN << resolving, logged(call) >>
             ELSE IF getThrows
             THEN << resolving, get, logged(call) >>
             ELSE << resolving, get >>

\* urlHandler.get called before the emitter
beforeAwait_getFirst(call, frame, filtersThrew, handler, options, getThrows) ==
  LET get == [kind |-> "get", call |-> call, urlHandler |-> handler,
              url |-> frame.url, options |-> options]
      resolving == emit(call, "VAST-resolving", resolvingPayload(frame, options))
  IN IF filtersThrew
     THEN << [kind |-> "unhandledRejection", call |-> call] >>
     ELSE IF options = Undefined
     THEN << logged(call) >>
     ELSE IF getThrows
     THEN << get, logged(call) >>
     ELSE IF frame.emitter = "throwsOnResolving"
     THEN << get, resolving, logged(call) >>
     ELSE << get, resolving >>

beforeAwait(call, frame, filtersThrew, handler, options, getThrows) ==
  LET get == [kind |-> "get", call |-> call, urlHandler |-> handler,
              url |-> frame.url, options |-> options]
  IN IF filtersThrew
     THEN << [kind |-> "unhandledRejection", call |-> call] >>
     ELSE IF options = Undefined
     THEN << logged(call) >>
     ELSE LET resolving == emit(call, "VAST-resolving",
                                resolvingPayload(frame, options))
          IN IF frame.emitter = "throwsOnResolving"
             THEN << resolving, logged(call) >>
             ELSE IF getThrows
             THEN << resolving, get, logged(call) >>
             ELSE << resolving, get >>

\* the promise settled before 'VAST-resolved' is emitted and the estimator updated
afterAwait_settleFirst(call, frame, data, deltaTime) ==
  LET resolved == emit(call, "VAST-resolved", resolvedInfo(frame, data, deltaTime))
      update == [kind |-> "updateEstimatedBitrate", call |-> call,
                 arguments |-> estimatorArguments(data, deltaTime)]
  IN IF frame.emitter = "throwsOnResolved"
     THEN << settle(call, data), resolved, logged(call) >>
     ELSE << settle(call, data), resolved, update >>

\* the emitter called with 'VAST-resolved' a second time after the update
afterAwait_resolvedTwice(call, frame, data, deltaTime) ==
  LET resolved == emit(call, "VAST-resolved", resolvedInfo(frame, data, deltaTime))
      update == [kind |-> "updateEstimatedBitrate", call |-> call,
                 arguments |-> estimatorArguments(data, deltaTime)]
  IN IF frame.emitter = "throwsOnResolved"
     THEN << resolved, logged(call) >>
     ELSE << resolved, update, resolved, settle(call, data) >>

afterAwait(call, frame, data, deltaTime) ==
  LET resolved == emit(call, "VAST-resolved", resolvedInfo(frame, data, deltaTime))
      update == [kind |-> "updateEstimatedBitrate", call |-> call,
                 arguments |-> estimatorArguments(data, deltaTime)]
  IN IF frame.emitter = "throwsOnResolved"
     THEN << resolved, logged(call) >>
     ELSE << resolved, update, settle(call, data) >>

\* the effects after the await when updateEstimatedBitrate throws (line 114)
afterAwaitEstimatorThrows(call, frame, data, deltaTime) ==
  LET resolved == emit(call, "VAST-resolved", resolvedInfo(frame, data, deltaTime))
      update == [kind |-> "updateEstimatedBitrate", call |-> call,
                 arguments |-> estimatorArguments(data, deltaTime),
                 threw |-> TRUE]
  IN IF frame.emitter = "throwsOnResolved"
     THEN << resolved, logged(call) >>
     ELSE << resolved, update, logged(call) >>

\* the await suspends the call exactly when get was invoked and returned
suspends(effects) == effects[Len(effects)].kind = "get"

(***************************************************************************)
(* The promise fetchVAST returns: resolve and reject settle it when it is  *)
(* pending and do nothing afterwards; calls counts the calls of either.    *)
(***************************************************************************)
PendingPromise == [state |-> "pending", value |-> "undefined", calls |-> 0]

RECURSIVE settled(_, _)
settled(promise, effects) ==
  IF effects = <<>> THEN promise
  ELSE LET e == Head(effects)
           next == IF e.kind \in {"resolve", "reject"}
                   THEN [state |-> IF promise.state # "pending" THEN promise.state
                                   ELSE IF e.kind = "resolve" THEN "resolved"
                                   ELSE "rejected",
                         value |-> IF promise.state # "pending" THEN promise.value
                                   ELSE e.value,
                         calls |-> promise.calls + 1]
                   ELSE promise
       IN settled(next, Tail(effects))

(***************************************************************************)
(* The bitrate estimator (src/parser/bitrate): its state is the sequence   *)
(* of samples it has taken.  An update without a byte length is skipped    *)
(* without error.                                                          *)
(***************************************************************************)
updateEstimatedBitrate(samples, arguments) ==
  IF "byteLength" \in DOMAIN arguments
  THEN Append(samples, <<arguments.byteLength, arguments.duration>>)
  ELSE samples

\* the estimator is shared by the whole process: what it may hold when the
\* Fetcher is constructed
EstimatorStates == { <<>>, << <<800, 1>> >> }

RECURSIVE estimated(_, _)
estimated(samples, effects) ==
  IF effects = <<>> THEN samples
  ELSE LET e == Head(effects)
       IN estimated(
            IF e.kind = "updateEstimatedBitrate"
            THEN updateEstimatedBitrate(samples, e.arguments)
            ELSE samples,
            Tail(effects))

(***************************************************************************)
(* The state.                                                              *)
(***************************************************************************)
VARIABLES
  URLTemplateFilters,  \* this.URLTemplateFilters
  urlHandler,          \* this.urlHandler
  fetchingOptions,     \* this.fetchingOptions
  now,                 \* the clock Date.now() reads
  pc,                  \* per call: "idle", "awaiting" (suspended at the await), "done"
  frame,               \* per call: the parameters and locals the executor closes over
  promise,             \* per call: the promise fetchVAST returned
  estimator,           \* the shared state of the bitrate estimator
  trace,               \* every effect of every call and every completion of a
                       \* transport, in the order they happened
  lastCall,            \* the last call of a filter method, its argument and its result
  history,             \* per call: what it was called with, what the transport
                       \* returned, the estimator before and after it resumed
  inserted,            \* reference: the filters in insertion order
  refCount             \* reference: the counter of filters

vars == << URLTemplateFilters, urlHandler, fetchingOptions, now, pc, frame,
           promise, estimator, trace, lastCall, history, inserted, refCount >>

fetcherVars == << URLTemplateFilters, urlHandler, fetchingOptions >>
filterVars == << URLTemplateFilters, inserted, refCount >>
callVars == << pc, frame, promise, estimator, trace, history >>

NoFrame == [idle |-> TRUE]

Init ==
  /\ URLTemplateFilters = <<>>
  /\ urlHandler = "undefined"
  /\ fetchingOptions = Undefined
  /\ now = 0
  /\ pc = [c \in Calls |-> "idle"]
  /\ frame = [c \in Calls |-> NoFrame]
  /\ promise = [c \in Calls |-> PendingPromise]
  /\ estimator \in EstimatorStates
  /\ trace = <<>>
  /\ lastCall = [op |-> "constructor"]
  /\ history = [c \in Calls |-> NoFrame]
  /\ inserted = <<>>
  /\ refCount = 0

(***************************************************************************)
(* The methods of Fetcher.                                                 *)
(***************************************************************************)
setOptions(options) ==
  /\ urlHandler' = urlHandlerOf(options)
  /\ fetchingOptions' = fetchingOptionsOf(options)
  /\ UNCHANGED << filterVars, lastCall, callVars, now >>

addURLTemplateFilter(filter) ==
  /\ Len(URLTemplateFilters) < MaxFilters
  /\ URLTemplateFilters' = IF isFunction(filter)
                           THEN push(URLTemplateFilters, filter)
                           ELSE URLTemplateFilters
  /\ inserted' = IF filter \in FilterFunctions
                 THEN Append(inserted, filter) ELSE inserted
  /\ refCount' = IF filter \in FilterFunctions THEN refCount + 1 ELSE refCount
  /\ lastCall' = [op |-> "addURLTemplateFilter", argument |-> filter,
                  threw |-> FALSE]
  /\ UNCHANGED << urlHandler, fetchingOptions, callVars, now >>

removeURLTemplateFilter ==
  /\ URLTemplateFilters' = pop(URLTemplateFilters)
  /\ inserted' = IF inserted = <<>> THEN inserted
                 ELSE [i \in 1..(Len(inserted) - 1) |-> inserted[i]]
  /\ refCount' = IF refCount = 0 THEN 0 ELSE refCount - 1
  /\ lastCall' = [op |-> "removeURLTemplateFilter", threw |-> FALSE,
                  before |-> URLTemplateFilters]
  /\ UNCHANGED << urlHandler, fetchingOptions, callVars, now >>

countURLTemplateFilters ==
  /\ lastCall' = [op |-> "countURLTemplateFilters",
                  returned |-> Len(URLTemplateFilters)]
  /\ UNCHANGED << fetcherVars, inserted, refCount, callVars, now >>

clearURLTemplateFilters ==
  /\ URLTemplateFilters' = <<>>
  /\ inserted' = <<>>
  /\ refCount' = 0
  /\ lastCall' = [op |-> "clearURLTemplateFilters"]
  /\ UNCHANGED << urlHandler, fetchingOptions, callVars, now >>

(***************************************************************************)
(* fetchVAST(request with emitter): the promise executor runs at once, up  *)
(* to the await.  getThrows says whether urlHandler.get throws instead of  *)
(* returning a promise.  Calls are numbered in the order they are made.    *)
(***************************************************************************)
fetchVAST(call, request, getThrows) ==
  /\ pc[call] = "idle"
  /\ \A c \in Calls : c < call => pc[c] # "idle"
  /\ LET timeBeforeGet == now
         run == forEach(URLTemplateFilters, request.url)
         locals == [parameters(request) EXCEPT !.url = run.url]
         fr == [url |-> locals.url,
                previousUrl |-> locals.previousUrl,
                wrapperDepth |-> locals.wrapperDepth,
                maxWrapperDepth |-> locals.maxWrapperDepth,
                wrapperAd |-> locals.wrapperAd,
                emitter |-> locals.emitter,
                timeBeforeGet |-> timeBeforeGet]
         effects == beforeAwait(call, fr, run.threw, urlHandler,
                                fetchingOptions, getThrows)
     IN /\ frame' = [frame EXCEPT ![call] = fr]
        /\ trace' = trace \o effects
        /\ promise' = [promise EXCEPT ![call] = settled(@, effects)]
        /\ estimator' = estimated(estimator, effects)
        /\ pc' = [pc EXCEPT ![call] =
                    IF suspends(effects) THEN "awaiting" ELSE "done"]
        /\ history' = [history EXCEPT ![call] =
                         [request |-> request, filters |-> inserted,
                          applied |-> run.applied, threw |-> run.threw,
                          options |-> fetchingOptions]]
  /\ UNCHANGED << fetcherVars, inserted, refCount, lastCall, now >>

\* the url of 'VAST-resolved' folded again from the filters as they are after the await
getReturns_filtersAgain(call, data) ==
  /\ pc[call] = "awaiting"
  /\ LET deltaTime == now - frame[call].timeBeforeGet
         again == [frame[call] EXCEPT !.url =
                     forEach(URLTemplateFilters, history[call].request.url).url]
         effects == afterAwait(call, again, data, deltaTime)
     IN /\ trace' = Append(trace, [kind |-> "returned", call |-> call,
                                    data |-> data]) \o effects
        /\ promise' = [promise EXCEPT ![call] = settled(@, effects)]
        /\ estimator' = estimated(estimator, effects)
        /\ history' = [history EXCEPT ![call] =
                         [k \in DOMAIN @ \cup {"data", "deltaTime", "before",
                                                "after"} |->
                            CASE k = "data" -> data
                              [] k = "deltaTime" -> deltaTime
                              [] k = "before" -> estimator
                              [] k = "after" -> estimated(estimator, effects)
                              [] OTHER -> @[k]]]
  /\ pc' = [pc EXCEPT ![call] = "done"]
  /\ UNCHANGED << fetcherVars, inserted, refCount, lastCall, frame, now >>

(***************************************************************************)
(* The transport completes with data: the suspended call resumes and runs  *)
(* to the end of the try block without suspending again.                   *)
(***************************************************************************)
getReturns(call, data) ==
  /\ pc[call] = "awaiting"
  /\ LET deltaTime == now - frame[call].timeBeforeGet
         effects == afterAwait(call, frame[call], data, deltaTime)
     IN /\ trace' = Append(trace, [kind |-> "returned", call |-> call,
                                    data |-> data]) \o effects
        /\ promise' = [promise EXCEPT ![call] = settled(@, effects)]
        /\ estimator' = estimated(estimator, effects)
        /\ history' = [history EXCEPT ![call] =
                         [k \in DOMAIN @ \cup {"data", "deltaTime", "before",
                                                "after"} |->
                            CASE k = "data" -> data
                              [] k = "deltaTime" -> deltaTime
                              [] k = "before" -> estimator
                              [] k = "after" -> estimated(estimator, effects)
                              [] OTHER -> @[k]]]
  /\ pc' = [pc EXCEPT ![call] = "done"]
  /\ UNCHANGED << fetcherVars, inserted, refCount, lastCall, frame, now >>

\* the promise of urlHandler.get is rejected: the await throws inside the try block
getRejects(call) ==
  /\ pc[call] = "awaiting"
  /\ trace' = trace \o << [kind |-> "rejected", call |-> call], logged(call) >>
  /\ pc' = [pc EXCEPT ![call] = "done"]
  /\ UNCHANGED << fetcherVars, inserted, refCount, lastCall, frame, promise,
                  estimator, history, now >>

\* The transport completes with data and updateEstimatedBitrate throws
\* without taking the sample: the catch block logs, nothing settles.
getReturnsEstimatorThrows(call, data) ==
  /\ pc[call] = "awaiting"
  /\ LET deltaTime == now - frame[call].timeBeforeGet
         effects == afterAwaitEstimatorThrows(call, frame[call], data, deltaTime)
     IN /\ trace' = Append(trace, [kind |-> "returned", call |-> call,
                                    data |-> data]) \o effects
        /\ promise' = [promise EXCEPT ![call] = settled(@, effects)]
        /\ history' = [history EXCEPT ![call] =
                         [k \in DOMAIN @ \cup {"data", "deltaTime", "before",
                                                "after"} |->
                            CASE k = "data" -> data
                              [] k = "deltaTime" -> deltaTime
                              [] k = "before" -> estimator
                              [] k = "after" -> estimator
                              [] OTHER -> @[k]]]
  /\ pc' = [pc EXCEPT ![call] = "done"]
  /\ UNCHANGED << fetcherVars, inserted, refCount, lastCall, frame, estimator,
                  now >>

\* time passes
Tick ==
  /\ now < MaxTime
  /\ now' = now + 1
  /\ UNCHANGED << fetcherVars, inserted, refCount, lastCall, callVars >>

Next ==
  \/ \E options \in OptionBags : setOptions(options)
  \/ \E filter \in FilterArguments : addURLTemplateFilter(filter)
  \/ removeURLTemplateFilter
  \/ countURLTemplateFilters
  \/ clearURLTemplateFilters
  \/ \E request \in Requests, getThrows \in BOOLEAN :
        fetchVAST(1, request, getThrows)
  \/ \E data \in TransportResults : getReturns(1, data)
  \/ getRejects(1)
  \/ Tick

Spec == Init /\ [][Next]_vars

(***************************************************************************)
(* The one call with every source of an exception: a filter, the emitter,  *)
(* urlHandler.get (thrown or rejected) and the bitrate estimator.          *)
(***************************************************************************)
NextFaults ==
  \/ Next
  \/ \E data \in TransportResults : getReturnsEstimatorThrows(1, data)

SpecFaults == Init /\ [][NextFaults]_vars

(***************************************************************************)
(* Several fetchVAST calls on the one Fetcher, in flight together: every   *)
(* call suspends at its await and the transports complete in any order.    *)
(* This specification is for the order of the effects: the filters stay as *)
(* constructed and the clock stands still; the emitter and the transport   *)
(* may throw.                                                              *)
(***************************************************************************)
InterleavedResults ==
  { d \in TransportResults : "statusCode" \in DOMAIN d /\ "details" \in DOMAIN d }

NextInterleaved ==
  \/ \E options \in OptionBags : setOptions(options)
  \/ \E call \in Calls, request \in Requests, getThrows \in BOOLEAN :
        fetchVAST(call, request, getThrows)
  \/ \E call \in Calls, data \in InterleavedResults : getReturns(call, data)
  \/ \E call \in Calls : getRejects(call)

SpecInterleaved == Init /\ [][NextInterleaved]_vars

(***************************************************************************)
(* Calls in flight together while the filters are added, removed and       *)
(* cleared during their awaits: the emitter returns, the transport returns *)
(* a result, and the clock stands still.                                   *)
(***************************************************************************)
Pending == { c \in Calls : pc[c] = "awaiting" }

PipelineRequests ==
  { r \in Requests : r.emitter = "returns" /\ "previousUrl" \notin DOMAIN r }

PipelineOptions == { o \in OptionBags : "urlHandler" \in DOMAIN o }

PipelineResults ==
  { d \in TransportResults :
      /\ "error" \notin DOMAIN d
      /\ "byteLength" \in DOMAIN detailsOf(d) }

NextPipeline ==
  \/ \E options \in PipelineOptions : setOptions(options)
  \/ Pending # {} /\ \E filter \in FilterFunctions : addURLTemplateFilter(filter)
  \/ Pending # {} /\ removeURLTemplateFilter
  \/ Pending # {} /\ clearURLTemplateFilters
  \/ \E call \in Calls, request \in PipelineRequests :
        fetchVAST(call, request, FALSE)
  \/ \E call \in Calls, data \in PipelineResults : getReturns(call, data)

SpecPipeline == Init /\ [][NextPipeline]_vars

(***************************************************************************)
(* Helpers of the properties.                                              *)
(***************************************************************************)
\* the indices of the trace entries of one kind that belong to a call
Entries(call, kind) ==
  { i \in 1..Len(trace) : trace[i].call = call /\ trace[i].kind = kind }

Emitted(call, name) ==
  { i \in Entries(call, "emit") : trace[i].name = name }

\* f_n(...f_1(url)) for the filters f_1 .. f_n, written as a composition
RECURSIVE Compose(_, _)
Compose(filters, url) ==
  IF filters = <<>> THEN url
  ELSE FilterResult(filters[Len(filters)],
                    Compose(SubSeq(filters, 1, Len(filters) - 1), url))

Started(call) == pc[call] # "idle"

\* the transport of the call has handed back a result and the call has run on
Returned(call) == pc[call] = "done" /\ "data" \in DOMAIN history[call]

\* the value the caller passed for a parameter, or the parameter's default
Given(call, name, default) ==
  IF name \in DOMAIN history[call].request
  THEN history[call].request[name] ELSE default

(***************************************************************************)
(* C1.  Every fetchVAST call settles its promise exactly once: neither     *)
(* resolve nor reject is called a second time, and once the call has run   *)
(* to its end (the transport, if it was called, has completed) the promise *)
(* is resolved or rejected.                                                *)
(***************************************************************************)
C1_EveryCallSettlesExactlyOnce ==
  \A c \in Calls :
    /\ promise[c].calls <= 1
    /\ pc[c] = "done" =>
         promise[c].state \in {"resolved", "rejected"} /\ promise[c].calls = 1

(***************************************************************************)
(* C2.  When the transport has handed back a result, the promise is        *)
(* resolved with the result's xml if the result has no error, rejected     *)
(* with the result's error if it has one, and never both.                  *)
(***************************************************************************)
C2_SettlesFromTransportResult ==
  \A c \in Calls : Returned(c) =>
    LET data == history[c].data
    IN /\ promise[c].calls <= 1
       /\ "error" \notin DOMAIN data =>
            promise[c].state = "resolved" /\ promise[c].value = data.xml
       /\ "error" \in DOMAIN data =>
            promise[c].state = "rejected" /\ promise[c].value = data.error

(***************************************************************************)
(* C3.  Whatever list of filters the add calls have built, the url that a  *)
(* fetchVAST call emits in 'VAST-resolving' and hands to urlHandler.get is *)
(* f_n(...f_1(url)) for the filters in the order they were inserted; the   *)
(* i-th call of a filter is the call of the i-th inserted filter, made     *)
(* once, on the result of the filters before it.                           *)
(***************************************************************************)
C3_FiltersFoldInInsertionOrder ==
  \A c \in Calls : Started(c) =>
    LET h == history[c]
        expected == Compose(h.filters, h.request.url)
    IN /\ \A i \in Emitted(c, "VAST-resolving") : trace[i].payload.url = expected
       /\ \A i \in Entries(c, "get") : trace[i].url = expected
       /\ ~h.threw =>
            /\ Len(h.applied) = Len(h.filters)
            /\ \A i \in 1..Len(h.filters) :
                 h.applied[i] =
                   << h.filters[i],
                      Compose(SubSeq(h.filters, 1, i - 1), h.request.url) >>

C3_Witness ==
  /\ Started(1)
  /\ history[1].filters = << "fb", "fa" >>
  /\ \E i \in Entries(1, "get") : trace[i].url = << "u", "b", "a" >>

(***************************************************************************)
(* C4.  countURLTemplateFilters() is the reference counter: 0 at first,    *)
(* plus 1 on each add of a function, minus 1 but not below 0 on each       *)
(* remove, 0 after each clear.  It is never negative.                      *)
(***************************************************************************)
C4_CountIsReferenceCounter ==
  /\ Len(URLTemplateFilters) = refCount
  /\ refCount >= 0
  /\ lastCall.op = "countURLTemplateFilters" =>
       lastCall.returned = refCount /\ lastCall.returned >= 0

C4_Witness ==
  /\ lastCall.op = "countURLTemplateFilters"
  /\ lastCall.returned = 2
  /\ URLTemplateFilters = << "fb", "fb" >>

(***************************************************************************)
(* C5.  addURLTemplateFilter with an argument that is not a function       *)
(* raises nothing and leaves the list of filters as it was.                *)
(***************************************************************************)
C5_NonCallableIgnored ==
  [][\A filter \in NonCallables :
       addURLTemplateFilter(filter) =>
         /\ URLTemplateFilters' = URLTemplateFilters
         /\ ~lastCall'.threw]_vars

C5_Witness ==
  /\ lastCall.op = "addURLTemplateFilter"
  /\ lastCall.argument \in NonCallables
  /\ URLTemplateFilters = << "fa" >>

(***************************************************************************)
(* C6.  removeURLTemplateFilter drops the filter inserted last and keeps   *)
(* the earlier ones in place and in order; on an empty list it changes     *)
(* nothing and raises nothing.  Adding a filter that is already in the     *)
(* list makes the list one longer.                                         *)
(***************************************************************************)
C6_RemoveDropsLastOnly ==
  [][/\ removeURLTemplateFilter =>
          /\ ~lastCall'.threw
          /\ IF URLTemplateFilters = <<>>
             THEN URLTemplateFilters' = <<>>
             ELSE /\ Len(URLTemplateFilters') = Len(URLTemplateFilters) - 1
                  /\ \A i \in 1..Len(URLTemplateFilters') :
                       URLTemplateFilters'[i] = URLTemplateFilters[i]
          /\ URLTemplateFilters' = inserted'
     /\ \A filter \in FilterFunctions :
          addURLTemplateFilter(filter) =>
            /\ Len(URLTemplateFilters') = Len(URLTemplateFilters) + 1
            /\ URLTemplateFilters'[Len(URLTemplateFilters')] = filter]_vars

C6_Witness ==
  /\ lastCall.op = "removeURLTemplateFilter"
  /\ lastCall.before = << "fa", "fa" >>
  /\ URLTemplateFilters = << "fa" >>

(***************************************************************************)
(* C7.  For each call, also when several are in flight: 'VAST-resolving'   *)
(* is emitted before urlHandler.get is called, and 'VAST-resolved' is      *)
(* emitted only after the call's transport has returned, which is after    *)
(* the call of get; so 'VAST-resolving' comes before 'VAST-resolved'.      *)
(***************************************************************************)
C7_ResolvingThenGetThenResolved ==
  \A c \in Calls :
    /\ \A g \in Entries(c, "get") :
         \E i \in Emitted(c, "VAST-resolving") : i < g
    /\ \A r \in Entries(c, "returned") \cup Entries(c, "rejected") :
         \E g \in Entries(c, "get") : g < r
    /\ \A j \in Emitted(c, "VAST-resolved") :
         /\ \E r \in Entries(c, "returned") : r < j
         /\ \E i \in Emitted(c, "VAST-resolving") : i < j

\* two calls in flight together, the second completing first
C7_Witness ==
  \E i1 \in Emitted(1, "VAST-resolving"), i2 \in Emitted(2, "VAST-resolving"),
     j1 \in Emitted(1, "VAST-resolved"), j2 \in Emitted(2, "VAST-resolved") :
    i1 < i2 /\ i2 < j2 /\ j2 < j1

(***************************************************************************)
(* C8.  In the payload of 'VAST-resolved' each of url, previousUrl,        *)
(* wrapperDepth, error, duration and statusCode holds the value fetchVAST  *)
(* computed for it, also when the details of the transport result have a   *)
(* field of the same name.                                                 *)
(***************************************************************************)
C8_NamedFieldsTakePrecedence ==
  \A c \in Calls : \A i \in Emitted(c, "VAST-resolved") :
    LET payload == trace[i].payload
        data == history[c].data
    IN /\ payload.url = frame[c].url
       /\ payload.previousUrl = frame[c].previousUrl
       /\ payload.wrapperDepth = frame[c].wrapperDepth
       /\ payload.error = orNull(data, "error")
       /\ payload.duration = history[c].deltaTime
       /\ payload.statusCode = orNull(data, "statusCode")

(***************************************************************************)
(* C9.  As claimed: the wrapperDepth, previousUrl and wrapperAd the caller *)
(* passed (or 0, null, null) are in the payload of 'VAST-resolving' and in *)
(* the payload of 'VAST-resolved'.                                         *)
(***************************************************************************)
C9_CallerValuesInBothPayloads ==
  \A c \in Calls : \A i \in Entries(c, "emit") :
    LET payload == trace[i].payload
    IN /\ payload.wrapperDepth = Given(c, "wrapperDepth", 0)
       /\ payload.previousUrl = Given(c, "previousUrl", Null)
       /\ "wrapperAd" \in DOMAIN payload
       /\ payload.wrapperAd = Given(c, "wrapperAd", Null)

(***************************************************************************)
(* C9, amended.  The three values are in the payload of 'VAST-resolving'.  *)
(* The payload of 'VAST-resolved' holds the caller's previousUrl and       *)
(* wrapperDepth unless the details of the transport result have a field    *)
(* of that name, whose value it then holds; it has a wrapperAd only when   *)
(* the details have one, and then the details' one.                        *)
(***************************************************************************)
C9_CallerValuesInPayloads ==
  \A c \in Calls :
    /\ \A i \in Emitted(c, "VAST-resolving") :
         LET payload == trace[i].payload
         IN /\ payload.wrapperDepth = Given(c, "wrapperDepth", 0)
            /\ payload.previousUrl = Given(c, "previousUrl", Null)
            /\ payload.wrapperAd = Given(c, "wrapperAd", Null)
    /\ \A i \in Emitted(c, "VAST-resolved") :
         LET payload == trace[i].payload
             details == detailsOf(history[c].data)
         IN /\ payload.wrapperDepth =
                 IF "wrapperDepth" \in DOMAIN details
                 THEN details.wrapperDepth ELSE Given(c, "wrapperDepth", 0)
            /\ payload.previousUrl =
                 IF "previousUrl" \in DOMAIN details
                 THEN details.previousUrl ELSE Given(c, "previousUrl", Null)
            /\ ("wrapperAd" \in DOMAIN payload) = ("wrapperAd" \in DOMAIN details)
            /\ "wrapperAd" \in DOMAIN details =>
                 payload.wrapperAd = details.wrapperAd

C9_Witness ==
  /\ Returned(1)
  /\ Given(1, "wrapperAd", Null) = "ad"
  /\ Given(1, "wrapperDepth", 0) = 1
  /\ \E i \in Emitted(1, "VAST-resolving") : trace[i].payload.wrapperAd = "ad"
  /\ \E i \in Emitted(1, "VAST-resolved") :
       /\ "wrapperAd" \notin DOMAIN trace[i].payload
       /\ trace[i].payload.wrapperDepth = 1

(***************************************************************************)
(* C10.  As claimed: when the transport result has no details.byteLength   *)
(* the estimator is not invoked, its state is what it was, 'VAST-resolved' *)
(* is emitted and the promise is settled.                                  *)
(***************************************************************************)
NoByteLength(call) ==
  Returned(call) /\ "byteLength" \notin DOMAIN detailsOf(history[call].data)

C11_SingleAttempt ==
  \A c \in Calls :
    /\ Cardinality(Entries(c, "get")) <= 1
    /\ Cardinality(Emitted(c, "VAST-resolving")) <= 1
    /\ Cardinality(Emitted(c, "VAST-resolved")) <= 1
    /\ Entries(c, "returned") # {} =>
         /\ Cardinality(Entries(c, "returned")) = 1
         /\ Cardinality(Entries(c, "get")) = 1
         /\ Cardinality(Emitted(c, "VAST-resolving")) = 1
         /\ Cardinality(Emitted(c, "VAST-resolved")) = 1

C11_Witness ==
  /\ Returned(1)
  /\ "error" \in DOMAIN history[1].data
  /\ promise[1].state = "rejected"
  /\ Cardinality(Entries(1, "get")) = 1
  /\ Cardinality(Emitted(1, "VAST-resolved")) = 1

(***************************************************************************)
(* C12.  'VAST-resolved' is emitted before the promise is rejected.  In    *)
(* its payload error is the error of the transport result or null, and     *)
(* statusCode is the statusCode of the transport result or null; for a     *)
(* result with an error and no statusCode they are that error and null.    *)
(***************************************************************************)
C12_ResolvedPayloadOnFailure ==
  \A c \in Calls :
    /\ \A r \in Entries(c, "reject") :
         \E j \in Emitted(c, "VAST-resolved") : j < r
    /\ \A j \in Emitted(c, "VAST-resolved") :
         LET payload == trace[j].payload
             data == history[c].data
         IN /\ payload.error =
                 IF "error" \in DOMAIN data THEN data.error ELSE Null
            /\ payload.statusCode \in
                 {Null} \cup (IF "statusCode" \in DOMAIN data
                              THEN {data.statusCode} ELSE {})
            /\ ("error" \in DOMAIN data /\ "statusCode" \notin DOMAIN data) =>
                 payload.error = data.error /\ payload.statusCode = Null

\* what went wrong in a call, read from what it was called with
FilterFault(call) == Started(call) /\ history[call].threw

PayloadFault(call) ==
  Started(call) /\ ~history[call].threw /\ history[call].options = Undefined

EmitterFault(call) ==
  /\ Started(call) /\ ~history[call].threw
  /\ history[call].options # Undefined
  /\ \/ history[call].request.emitter = "throwsOnResolving"
     \/ Returned(call) /\ history[call].request.emitter = "throwsOnResolved"

CaughtAndLogged(call) ==
  /\ Cardinality(Entries(call, "console.error")) = 1
  /\ Entries(call, "unhandledRejection") = {}
  /\ Entries(call, "resolve") \cup Entries(call, "reject") = {}
  /\ promise[call] = PendingPromise
  /\ pc[call] = "done"

(***************************************************************************)
(* C13.  An exception raised in fetchVAST by a filter, while building a    *)
(* payload or by the emitter is caught and only logged: it is no unhandled *)
(* rejection, it does not reject the returned promise, and the promise     *)
(* stays pending.                                                          *)
(***************************************************************************)
C13_EveryExceptionCaughtAndLogged ==
  \A c \in Calls :
    FilterFault(c) \/ PayloadFault(c) \/ EmitterFault(c) => CaughtAndLogged(c)

(***************************************************************************)
(* C13, as the code has it.  An exception raised while building a payload  *)
(* or by the emitter is caught and only logged.  An exception raised by a  *)
(* filter is not caught and not logged: it is the rejection of the         *)
(* executor's own promise, which nothing handles, and it is the only       *)
(* effect of the call.  In every case the returned promise is not rejected *)
(* and stays pending.                                                      *)
(***************************************************************************)
C13_CaughtExceptForFilters ==
  \A c \in Calls :
    /\ PayloadFault(c) \/ EmitterFault(c) => CaughtAndLogged(c)
    /\ FilterFault(c) =>
         /\ Cardinality(Entries(c, "unhandledRejection")) = 1
         /\ \A i \in 1..Len(trace) :
              trace[i].call = c => trace[i].kind = "unhandledRejection"
         /\ promise[c] = PendingPromise
         /\ pc[c] = "done"
    /\ Entries(c, "unhandledRejection") # {} => FilterFault(c)

C13_Witness ==
  /\ FilterFault(1)
  /\ Entries(1, "unhandledRejection") # {}
  /\ promise[1] = PendingPromise
  /\ fetchingOptions # Undefined

(***************************************************************************)
(* C14.  The promise is rejected only when the transport returned a result *)
(* whose error is set, and then with that error: a call in which a filter, *)
(* the emitter, the bitrate estimator or urlHandler.get threw is never     *)
(* rejected.                                                               *)
(***************************************************************************)
C14_RejectedOnlyWithTransportError ==
  \A c \in Calls :
    /\ \A i \in Entries(c, "reject") :
         /\ Returned(c)
         /\ "error" \in DOMAIN history[c].data
         /\ trace[i].value = history[c].data.error
    /\ promise[c].state = "rejected" =>
         /\ Returned(c)
         /\ "error" \in DOMAIN history[c].data
         /\ promise[c].value = history[c].data.error
    /\ (Entries(c, "console.error") \cup Entries(c, "unhandledRejection")) # {} =>
         promise[c].state # "rejected"

C14_Witness ==
  /\ Returned(1)
  /\ Entries(1, "reject") # {}
  /\ promise[1].state = "rejected"
  /\ promise[1].value = history[1].data.error

(***************************************************************************)
(* C15.  fetchVAST has no timeout of its own: while urlHandler.get has not *)
(* completed, however much time has passed, the call emits no              *)
(* 'VAST-resolved', updates no estimator and does not settle.  The         *)
(* configured timeout appears only in the 'VAST-resolving' payload and in  *)
(* the options handed to get, with the same value in both.                 *)
(***************************************************************************)
C15_NoTimeoutOfItsOwn ==
  \A c \in Calls :
    /\ pc[c] = "awaiting" =>
         /\ Emitted(c, "VAST-resolved") = {}
         /\ Entries(c, "updateEstimatedBitrate") = {}
         /\ Entries(c, "resolve") \cup Entries(c, "reject") = {}
         /\ Entries(c, "console.error") = {}
         /\ promise[c] = PendingPromise
    /\ \A i \in Emitted(c, "VAST-resolving"), j \in Entries(c, "get") :
         /\ trace[i].payload.timeout = history[c].options.timeout
         /\ trace[j].options = history[c].options
         /\ trace[i].payload.timeout = trace[j].options.timeout

\* the call still waits when the configured timeout has run out
C15_Witness ==
  /\ pc[1] = "awaiting"
  /\ history[1].options.timeout # DEFAULT_TIMEOUT
  /\ now - frame[1].timeBeforeGet >= history[1].options.timeout
  /\ promise[1] = PendingPromise

\* entry i of the trace is an effect of the given kind of the call
IsEntry(i, call, kind) ==
  /\ i \in 1..Len(trace)
  /\ trace[i].call = call
  /\ trace[i].kind = kind

(***************************************************************************)
(* C16.  After the transport of a call completes, its steps come in this   *)
(* order with nothing between them: 'VAST-resolved' is emitted, then the   *)
(* estimator is updated, then the promise is settled.  No step of another  *)
(* call comes between them, so a settled promise has had its               *)
(* 'VAST-resolved' delivered and the estimator updated.                    *)
(***************************************************************************)
C16_ResolvedUpdateSettleTogether ==
  \A c \in Calls :
    /\ \A i \in Emitted(c, "VAST-resolved") : IsEntry(i - 1, c, "returned")
    /\ \A i \in Entries(c, "updateEstimatedBitrate") :
         /\ IsEntry(i - 1, c, "emit")
         /\ trace[i - 1].name = "VAST-resolved"
    /\ \A i \in Entries(c, "resolve") \cup Entries(c, "reject") :
         /\ IsEntry(i - 1, c, "updateEstimatedBitrate")
         /\ IsEntry(i - 2, c, "emit")
         /\ trace[i - 2].name = "VAST-resolved"
         /\ IsEntry(i - 3, c, "returned")
    /\ promise[c].state # "pending" =>
         /\ Emitted(c, "VAST-resolved") # {}
         /\ Entries(c, "updateEstimatedBitrate") # {}

\* call 2 completed first, while call 1 was suspended, and both are settled
C16_Witness ==
  /\ promise[1].state # "pending"
  /\ promise[2].state # "pending"
  /\ \E i \in Entries(1, "get"), j \in Entries(2, "get"),
        k \in Entries(2, "returned"), l \in Entries(1, "returned") :
       i < j /\ j < k /\ k < l

\* the transport result of the call reports details.byteLength
ReportsByteLength(call) ==
  /\ Returned(call)
  /\ "byteLength" \in DOMAIN detailsOf(history[call].data)

(***************************************************************************)
(* C17.  No sample is lost: every call whose transport result reports      *)
(* details.byteLength causes exactly one estimator update, with that       *)
(* call's byteLength and that call's own elapsed time, which is the        *)
(* duration of its 'VAST-resolved' payload; there are as many such updates *)
(* as there are such calls.                                                *)
(***************************************************************************)
C17_NoSampleLost ==
  /\ \A c \in Calls :
       ReportsByteLength(c) =>
         /\ Cardinality(Entries(c, "updateEstimatedBitrate")) = 1
         /\ \A i \in Entries(c, "updateEstimatedBitrate") :
              /\ trace[i].arguments.byteLength =
                   detailsOf(history[c].data).byteLength
              /\ trace[i].arguments.duration = history[c].deltaTime
              /\ \A j \in Emitted(c, "VAST-resolved") :
                   trace[j].payload.duration = trace[i].arguments.duration
         /\ history[c].after =
              Append(history[c].before,
                     << detailsOf(history[c].data).byteLength,
                        history[c].deltaTime >>)
  /\ Cardinality({ i \in 1..Len(trace) :
                     /\ trace[i].kind = "updateEstimatedBitrate"
                     /\ "byteLength" \in DOMAIN trace[i].arguments })
       = Cardinality({ c \in Calls : ReportsByteLength(c) })

(***************************************************************************)
(* C18.  The effective url of a call is fixed when fetchVAST is called:    *)
(* the url of its 'VAST-resolving' payload, the url passed to get and the  *)
(* url of its 'VAST-resolved' payload (when details has no url field) are  *)
(* the one value folded from the filters as they were at the call.  Adding,*)
(* removing or clearing filters while the call is pending changes none of  *)
(* them; it changes the url of the calls started afterwards.               *)
(***************************************************************************)
C18_UrlFixedAtInvocation ==
  \A c \in Calls : Started(c) =>
    LET h == history[c]
        expected == Compose(h.filters, h.request.url)
    IN /\ \A i \in Emitted(c, "VAST-resolving") : trace[i].payload.url = expected
       /\ \A i \in Entries(c, "get") : trace[i].url = expected
       /\ \A i \in Emitted(c, "VAST-resolved") :
            "url" \notin DOMAIN detailsOf(h.data) =>
              trace[i].payload.url = expected

\* the filters changed while call 1 was pending: call 2, started in between,
\* got the url of the new filters and call 1 kept its own
C18_Witness ==
  /\ Returned(1)
  /\ Started(2)
  /\ history[1].request = history[2].request
  /\ history[1].filters # history[2].filters
  /\ "url" \notin DOMAIN detailsOf(history[1].data)
  /\ \E i \in Entries(1, "get"), j \in Entries(2, "get"),
        k \in Emitted(1, "VAST-resolved") :
       /\ i < j /\ j < k
       /\ trace[j].url # trace[i].url
       /\ trace[k].payload.url = trace[i].url
       /\ trace[k].payload.url # Compose(URLTemplateFilters, history[1].request.url)

\* the value a call's own details put in place of the named field, if any
OwnValue(call, name, value) ==
  LET details == detailsOf(history[call].data)
  IN IF name \in DOMAIN details THEN details[name] ELSE value

(***************************************************************************)
(* C19.  Calls in flight together are isolated: the two notifications of a *)
(* call carry its own url, previousUrl and wrapperDepth (in                *)
(* 'VAST-resolved', as everywhere, a field of its own details replaces the *)
(* named one), never those of another call, and its promise is settled     *)
(* from the transport result of its own request.                           *)
(***************************************************************************)
C19_CallsIsolated ==
  \A c \in Calls : Started(c) =>
    LET h == history[c]
        url == Compose(h.filters, h.request.url)
        previousUrl == Given(c, "previousUrl", Null)
        wrapperDepth == Given(c, "wrapperDepth", 0)
    IN /\ \A i \in Emitted(c, "VAST-resolving") :
            /\ trace[i].payload.url = url
            /\ trace[i].payload.previousUrl = previousUrl
            /\ trace[i].payload.wrapperDepth = wrapperDepth
       /\ \A i \in Emitted(c, "VAST-resolved") :
            /\ trace[i].payload.url = OwnValue(c, "url", url)
            /\ trace[i].payload.previousUrl =
                 OwnValue(c, "previousUrl", previousUrl)
            /\ trace[i].payload.wrapperDepth =
                 OwnValue(c, "wrapperDepth", wrapperDepth)
       /\ \A i \in Entries(c, "resolve") :
            /\ Returned(c)
            /\ "error" \notin DOMAIN h.data
            /\ trace[i].value = h.data.xml
            /\ promise[c] = [state |-> "resolved", value |-> h.data.xml,
                             calls |-> 1]
       /\ \A i \in Entries(c, "reject") :
            /\ Returned(c)
            /\ "error" \in DOMAIN h.data
            /\ trace[i].value = h.data.error
            /\ promise[c] = [state |-> "rejected", value |-> h.data.error,
                             calls |-> 1]
       /\ promise[c].state # "pending" =>
            Entries(c, "resolve") \cup Entries(c, "reject") # {}

\* two calls with different parameters, suspended together, whose transports
\* returned different results in the opposite order
C19_Witness ==
  /\ Returned(1) /\ Returned(2)
  /\ history[1].request.url # history[2].request.url
  /\ Given(1, "wrapperDepth", 0) # Given(2, "wrapperDepth", 0)
  /\ promise[1].state = "resolved"
  /\ promise[2].state = "rejected"
  /\ \E i \in Entries(1, "get"), j \in Entries(2, "get"),
        k \in Entries(2, "returned"), l \in Entries(1, "returned") :
       i < j /\ j < k /\ k < l

(***************************************************************************)
(* C20.  A fetchVAST call made before any setOptions still applies the     *)
(* filters, but emits no notification, does not invoke the transport,      *)
(* updates no estimator and never settles its promise; a setOptions made   *)
(* afterwards does not revive the call.                                    *)
(***************************************************************************)
C20_DeadWithoutSetOptions ==
  \A c \in Calls :
    (Started(c) /\ history[c].options = Undefined) =>
      LET h == history[c]
      IN /\ Len(h.applied) >= 1 <=> h.filters # <<>>
         /\ ~h.threw => Len(h.applied) = Len(h.filters)
         /\ Entries(c, "emit") = {}
         /\ Entries(c, "get") = {}
         /\ Entries(c, "updateEstimatedBitrate") = {}
         /\ Entries(c, "resolve") \cup Entries(c, "reject") = {}
         /\ promise[c] = PendingPromise
         /\ pc[c] = "done"

\* setOptions was called after the call: the call stays dead
C20_Witness ==
  /\ Started(1)
  /\ history[1].options = Undefined
  /\ history[1].filters # <<>>
  /\ history[1].applied # <<>>
  /\ fetchingOptions # Undefined
  /\ urlHandler # "undefined"
  /\ promise[1] = PendingPromise

====
